---------------------------- MODULE Spec2Model ----------------------------
(***************************************************************************)
(* softnet-stat: a single-shot reader, parser and renderer of the Linux    *)
(* kernel's /proc/net/softnet_stat table (src/src/main.rs).                *)
(*                                                                         *)
(* Bytes are modelled by their ASCII codes.  A Rust byte slice &[u8] of    *)
(* the input buffer is modelled by the buffer together with the 1-based    *)
(* offset of the slice's first byte (every slice the parsers handle is a   *)
(* suffix of the buffer).  Option<u32> is modelled by a sequence of        *)
(* length 0 (None) or 1 (Some(v)).  An IResult is a record                 *)
(*   [ok, rest, value, kind]                                               *)
(* with rest the offset of the remaining input and kind the nom ErrorKind  *)
(* of an Err::Error.                                                       *)
(*                                                                         *)
(* TLC's integers are 32-bit signed, so the hexadecimal tokens of the      *)
(* enumerated inputs are chosen below 2^31; hex_u32 itself cannot overflow *)
(* a u32 since it reads at most 8 digits.                                  *)
(***************************************************************************)
EXTENDS Integers, Sequences, FiniteSets, TLC

VARIABLES pc, args, raw, res, lineRes, stats, idx, stdout

vars == <<pc, args, raw, res, lineRes, stats, idx, stdout>>

(***************************************************************************)
(* Bytes                                                                   *)
(***************************************************************************)
SP == 32
LF == 10
CR == 13

None == <<>>
Some(v) == <<v>>

IsDecDigit(b) == b >= 48 /\ b <= 57
IsLowerHex(b) == b >= 97 /\ b <= 102
IsUpperHex(b) == b >= 65 /\ b <= 70

\* nom::number::complete::hex_u32 scans with is_a("0123456789abcdefABCDEF")
IsHexDigit(b) == IsDecDigit(b) \/ IsLowerHex(b) \/ IsUpperHex(b)

\* char::to_digit(16).unwrap_or(0)
to_digit(b) ==
    IF IsDecDigit(b) THEN b - 48
    ELSE IF IsLowerHex(b) THEN b - 87
    ELSE IF IsUpperHex(b) THEN b - 55
    ELSE 0

Ok(rest, value) == [ok |-> TRUE, rest |-> rest, value |-> value, kind |-> "Ok"]
Error(at, kind) == [ok |-> FALSE, rest |-> at, value |-> <<>>, kind |-> kind]

(***************************************************************************)
(* nom combinators used by the parser                                      *)
(***************************************************************************)
RECURSIVE HexRun(_, _)
\* is_a: the length of the longest run of hex digits starting at offset p
HexRun(buf, p) ==
    IF p <= Len(buf) /\ IsHexDigit(buf[p]) THEN 1 + HexRun(buf, p + 1) ELSE 0

RECURSIVE Pow16(_)
Pow16(k) == IF k = 0 THEN 1 ELSE 16 * Pow16(k - 1)

RECURSIVE ShiftSum(_, _, _, _)
\* parsed.iter().rev().enumerate().map(|(k, v)| to_digit(v) << (k * 4)).sum()
\* over the n bytes buf[p .. p+n-1]; k counts from the last byte
ShiftSum(buf, p, n, k) ==
    IF k = n THEN 0
    ELSE to_digit(buf[p + n - 1 - k]) * Pow16(k) + ShiftSum(buf, p, n, k + 1)

MaxHexDigits == 8

\* a mutant of hex_u32: the whole run of digits is consumed, however long
hex_u32_uncapped(buf, p) ==
    LET Take(n) ==
            IF n = 0 THEN Error(p, "IsA")
            ELSE Ok(p + n, ShiftSum(buf, p, IF n <= MaxHexDigits THEN n ELSE MaxHexDigits, 0))
    IN  Take(HexRun(buf, p))

\* hex_u32: is_a over the hex digits, then at most 8 of them are parsed and
\* the others are left in the input
hex_u32(buf, p) ==
    LET Parsed(take) == Ok(p + take, ShiftSum(buf, p, take, 0))
        Take(n) ==
            IF n = 0 THEN Error(p, "IsA")
            ELSE Parsed(IF n <= MaxHexDigits THEN n ELSE MaxHexDigits)
    IN  Take(HexRun(buf, p))

\* char(' ')
space(buf, p) ==
    IF p <= Len(buf) /\ buf[p] = SP THEN Ok(p + 1, SP) ELSE Error(p, "Char")

\* line_ending: "\n" or "\r\n"
line_ending(buf, p) ==
    IF p <= Len(buf) /\ buf[p] = LF THEN Ok(p + 1, <<LF>>)
    ELSE IF p + 1 <= Len(buf) /\ buf[p] = CR /\ buf[p + 1] = LF THEN Ok(p + 2, <<CR, LF>>)
    ELSE Error(p, "CrLf")

\* preceded(space, hex_u32)
preceded_space_hex(buf, p) ==
    LET Then(s) == IF ~s.ok THEN s ELSE hex_u32(buf, s.rest)
    IN  Then(space(buf, p))

\* a mutant of opt: a parsed value of 0 is taken for an absent field
opt_zero_is_none(buf, p) ==
    LET Then(r) ==
            IF r.ok THEN Ok(r.rest, IF r.value = 0 THEN None ELSE Some(r.value))
            ELSE Ok(p, None)
    IN  Then(preceded_space_hex(buf, p))

\* opt(preceded(space, hex_u32)): an Err::Error becomes None, nothing consumed
opt_preceded_space_hex(buf, p) ==
    LET Then(r) == IF r.ok THEN Ok(r.rest, Some(r.value)) ELSE Ok(p, None)
    IN  Then(preceded_space_hex(buf, p))

NumMandatory == 9
NumOptional == 4

RECURSIVE MandatoryFields(_, _, _, _)
\* the tuple's first nine parsers: hex_u32, then eight preceded(space, hex_u32);
\* acc holds the values parsed so far, n the number still to parse
MandatoryFields(buf, p, n, acc) ==
    LET Then(r) ==
            IF ~r.ok THEN r
            ELSE MandatoryFields(buf, r.rest, n - 1, Append(acc, r.value))
    IN  IF n = 0 THEN Ok(p, acc)
        ELSE Then(IF acc = <<>> THEN hex_u32(buf, p) ELSE preceded_space_hex(buf, p))

RECURSIVE OptionalFields(_, _, _, _)
\* the tuple's four opt(preceded(space, hex_u32)) parsers, in order
OptionalFields(buf, p, n, acc) ==
    LET Then(r) == OptionalFields(buf, r.rest, n - 1, Append(acc, r.value))
    IN  IF n = 0 THEN Ok(p, acc)
        ELSE Then(opt_preceded_space_hex(buf, p))

\* the tuple(( ... line_ending )) of parse_softnet_line; the value is the
\* 13-tuple result.0 .. result.12 (1-based here: result[1] .. result[13])
line(buf, p) ==
    LET End(m, o, e) == IF ~e.ok THEN e ELSE Ok(e.rest, m.value \o o.value)
        Optional(m, o) == End(m, o, line_ending(buf, o.rest))
        Mandatory(m) ==
            IF ~m.ok THEN m
            ELSE Optional(m, OptionalFields(buf, m.rest, NumOptional, <<>>))
    IN  Mandatory(MandatoryFields(buf, p, NumMandatory, <<>>))

\* a mutant of the map closure: backlog_len and cpu_id are swapped
SoftnetStatSwapped(result) ==
    [processed        |-> result[1],
     dropped          |-> result[2],
     time_squeeze     |-> result[3],
     cpu_collision    |-> result[9],
     received_rps     |-> result[10],
     flow_limit_count |-> result[11],
     backlog_len      |-> result[13],
     cpu_id           |-> result[12]]

\* the closure of map(line, |result| SoftnetStat { ... })
SoftnetStat(result) ==
    [processed        |-> result[1],
     dropped          |-> result[2],
     time_squeeze     |-> result[3],
     cpu_collision    |-> result[9],
     received_rps     |-> result[10],
     flow_limit_count |-> result[11],
     backlog_len      |-> result[12],
     cpu_id           |-> result[13]]

parse_softnet_line(buf, p) ==
    LET Map(r) == IF ~r.ok THEN r ELSE Ok(r.rest, SoftnetStat(r.value))
    IN  IF Len(buf) - (p - 1) = 0 THEN Error(p, "Eof")
        ELSE Map(line(buf, p))

RECURSIVE many1_loop(_, _, _)
\* the loop of nom::multi::many1 after the first success
many1_loop(buf, p, acc) ==
    LET Then(r) ==
            IF ~r.ok THEN Ok(p, acc)
            ELSE IF r.rest = p THEN Error(p, "Many1")
            ELSE many1_loop(buf, r.rest, Append(acc, r.value))
    IN  Then(parse_softnet_line(buf, p))

\* a mutant of many1: many0, which succeeds with no element
many0_parse_softnet_line(buf, p) == many1_loop(buf, p, <<>>)

RECURSIVE many1_loop_skipping(_, _, _)
many1_loop_skipping(buf, p, acc) ==
    LET Then(r) ==
            IF ~r.ok THEN Ok(r.rest, acc)
            ELSE many1_loop_skipping(buf, r.rest, Append(acc, r.value))
    IN  Then(parse_softnet_line(buf, p))

\* a mutant of many1: the remaining input is where the failing line's error
\* was raised, not where that line starts
many1_consuming(buf, p) ==
    LET Then(r) == IF ~r.ok THEN r ELSE many1_loop_skipping(buf, r.rest, <<r.value>>)
    IN  Then(parse_softnet_line(buf, p))

\* many1(parse_softnet_line); on a first-line Err::Error, nom::error::Error's
\* append keeps the line parser's own error
many1_parse_softnet_line(buf, p) ==
    LET Then(r) == IF ~r.ok THEN r ELSE many1_loop(buf, r.rest, <<r.value>>)
    IN  Then(parse_softnet_line(buf, p))

parse_softnet_stats(buf) == many1_parse_softnet_line(buf, 1)

(***************************************************************************)
(* Renderers                                                               *)
(***************************************************************************)
\* Option::unwrap_or_default
unwrap_or_default(o) == IF Len(o) = 0 THEN 0 ELSE o[1]

\* Option::unwrap_or
unwrap_or(o, d) == IF Len(o) = 0 THEN d ELSE o[1]

\* one line written to standard output
OutLine(kind, name, cpu, data) ==
    [kind |-> kind, name |-> name, cpu |-> cpu, data |-> data]

\* print_usage
UsageLine == OutLine("usage", "Usage", 0, <<>>)

\* the header println! of print
HeaderLine == OutLine("header", "Cpu", 0, <<>>)

\* the per-record println! of print, for the record at 0-based position i
RowLine(i, stat) ==
    OutLine("row", "row", i,
            <<i, stat.processed, stat.dropped, stat.time_squeeze,
              stat.cpu_collision,
              unwrap_or_default(stat.received_rps),
              unwrap_or_default(stat.flow_limit_count),
              unwrap_or_default(stat.backlog_len),
              unwrap_or_default(stat.cpu_id)>>)

\* a mutant of the label: the sequence position is always used
PrometheusCpuByPosition(i, stat) == i

\* let cpu_id = stat.cpu_id.unwrap_or(i as u32)
PrometheusCpu(i, stat) == unwrap_or(stat.cpu_id, i)

\* the seven println! of prometheus for the record at 0-based position i
PrometheusLines(i, stat) ==
    LET cpu_id == PrometheusCpu(i, stat)
    IN  << OutLine("prom", "softnet_frames_processed", cpu_id, <<stat.processed>>),
           OutLine("prom", "softnet_frames_dropped", cpu_id, <<stat.dropped>>),
           OutLine("prom", "softnet_time_squeeze", cpu_id, <<stat.time_squeeze>>),
           OutLine("prom", "softnet_cpu_collisions", cpu_id, <<stat.cpu_collision>>),
           OutLine("prom", "softnet_received_rps", cpu_id,
                   <<unwrap_or_default(stat.received_rps)>>),
           OutLine("prom", "softnet_flow_limit_count", cpu_id,
                   <<unwrap_or_default(stat.flow_limit_count)>>),
           OutLine("prom", "softnet_backlog_len", cpu_id,
                   <<unwrap_or_default(stat.backlog_len)>>) >>

(***************************************************************************)
(* JSON text, as bytes                                                     *)
(***************************************************************************)
FieldNames ==
    <<"processed", "dropped", "time_squeeze", "cpu_collision",
      "received_rps", "flow_limit_count", "backlog_len", "cpu_id">>

OptionalNames == {"received_rps", "flow_limit_count", "backlog_len", "cpu_id"}

\* the field names of SoftnetStat as the bytes serde writes for the keys
KeyBytes(f) ==
    CASE f = "processed"        -> <<112, 114, 111, 99, 101, 115, 115, 101, 100>>
      [] f = "dropped"          -> <<100, 114, 111, 112, 112, 101, 100>>
      [] f = "time_squeeze"     -> <<116, 105, 109, 101, 95, 115, 113, 117, 101, 101, 122, 101>>
      [] f = "cpu_collision"    -> <<99, 112, 117, 95, 99, 111, 108, 108, 105, 115, 105, 111, 110>>
      [] f = "received_rps"     -> <<114, 101, 99, 101, 105, 118, 101, 100, 95, 114, 112, 115>>
      [] f = "flow_limit_count" -> <<102, 108, 111, 119, 95, 108, 105, 109, 105, 116, 95, 99, 111, 117, 110, 116>>
      [] f = "backlog_len"      -> <<98, 97, 99, 107, 108, 111, 103, 95, 108, 101, 110>>
      [] f = "cpu_id"           -> <<99, 112, 117, 95, 105, 100>>

NullBytes == <<110, 117, 108, 108>>

RECURSIVE ToDecimal(_)
\* the decimal digits of a u32, as serde_json writes an integer
ToDecimal(n) ==
    IF n < 10 THEN <<48 + n>> ELSE ToDecimal(n \div 10) \o <<48 + (n % 10)>>

\* a mutant of the Option<u32> serializer: None is written as the default 0
JsonOptionDefault(o) == ToDecimal(unwrap_or_default(o))

\* Serialize for Option<u32>: None is null, Some(v) is v
JsonOption(o) == IF Len(o) = 0 THEN NullBytes ELSE ToDecimal(o[1])

\* "key":value
JsonMember(f, valueBytes) == <<34>> \o KeyBytes(f) \o <<34, 58>> \o valueBytes

\* #[derive(Serialize)] struct SoftnetStat, in declaration order
JsonObject(stat) ==
    <<123>>
    \o JsonMember("processed", ToDecimal(stat.processed)) \o <<44>>
    \o JsonMember("dropped", ToDecimal(stat.dropped)) \o <<44>>
    \o JsonMember("time_squeeze", ToDecimal(stat.time_squeeze)) \o <<44>>
    \o JsonMember("cpu_collision", ToDecimal(stat.cpu_collision)) \o <<44>>
    \o JsonMember("received_rps", JsonOption(stat.received_rps)) \o <<44>>
    \o JsonMember("flow_limit_count", JsonOption(stat.flow_limit_count)) \o <<44>>
    \o JsonMember("backlog_len", JsonOption(stat.backlog_len)) \o <<44>>
    \o JsonMember("cpu_id", JsonOption(stat.cpu_id))
    \o <<125>>

RECURSIVE JsonElements(_, _)
JsonElements(ss, k) ==
    IF k > Len(ss) THEN <<>>
    ELSE (IF k > 1 THEN <<44>> ELSE <<>>) \o JsonObject(ss[k]) \o JsonElements(ss, k + 1)

\* serde_json::to_string(&stats)
to_string(ss) == <<91>> \o JsonElements(ss, 1) \o <<93>>

\* the println! of json
JsonLine(ss) == OutLine("json", "json", 0, to_string(ss))

\* the byte at offset q, or 0 past the end
At(t, q) == IF q >= 1 /\ q <= Len(t) THEN t[q] ELSE 0

RECURSIVE QuoteAt(_, _)
\* the offset of the first '"' at or after p, or 0 when there is none
QuoteAt(t, p) ==
    IF p > Len(t) THEN 0 ELSE IF t[p] = 34 THEN p ELSE QuoteAt(t, p + 1)

RECURSIVE DigitRun(_, _)
DigitRun(t, p) ==
    IF p <= Len(t) /\ IsDecDigit(t[p]) THEN 1 + DigitRun(t, p + 1) ELSE 0

RECURSIVE FromDecimal(_, _, _, _)
\* the value of the n decimal digits t[p .. p+n-1], most significant first
FromDecimal(t, p, n, acc) ==
    IF n = 0 THEN acc ELSE FromDecimal(t, p + 1, n - 1, acc * 10 + (t[p] - 48))

\* Deserialize for Option<u32>: null is None, an integer v is Some(v)
DecodeOption(t, p) ==
    LET Number(n) ==
            IF n = 0 THEN Error(p, "ExpectedValue")
            ELSE Ok(p + n, Some(FromDecimal(t, p, n, 0)))
    IN  IF p + 3 <= Len(t) /\ SubSeq(t, p, p + 3) = NullBytes THEN Ok(p + 4, None)
        ELSE Number(DigitRun(t, p))

\* the field a key names, or "" for a key that names none (serde ignores it)
FieldOfKey(key) ==
    IF \E k \in 1..Len(FieldNames) : KeyBytes(FieldNames[k]) = key
    THEN FieldNames[CHOOSE k \in 1..Len(FieldNames) : KeyBytes(FieldNames[k]) = key]
    ELSE ""

\* no field seen yet
NoFields == [f \in {FieldNames[k] : k \in 1..Len(FieldNames)} |-> <<>>]

\* the struct built at the closing brace: a missing u32 field is an error, a
\* missing Option field is None
BuildStat(partial, q) ==
    IF \E f \in DOMAIN partial : f \notin OptionalNames /\ Len(partial[f]) = 0
    THEN Error(q, "MissingField")
    ELSE Ok(q,
            [f \in DOMAIN partial |->
                IF f \in OptionalNames
                THEN (IF Len(partial[f]) = 0 THEN None ELSE partial[f][1])
                ELSE partial[f][1][1]])

RECURSIVE DecodeMembers(_, _, _)
\* the members "key":value of one object, from offset p to its closing brace
DecodeMembers(t, p, partial) ==
    LET After(next, q) ==
            IF At(t, q) = 44 THEN DecodeMembers(t, q + 1, next)
            ELSE IF At(t, q) = 125 THEN BuildStat(next, q + 1)
            ELSE Error(q, "ExpectedCommaOrBrace")
        Member(kEnd, f, v) ==
            IF ~v.ok THEN v
            ELSE IF f # "" /\ Len(partial[f]) > 0 THEN Error(p, "DuplicateField")
            ELSE IF f # "" /\ f \notin OptionalNames /\ Len(v.value) = 0
                 THEN Error(kEnd + 2, "InvalidType")
            ELSE After(IF f = "" THEN partial ELSE [partial EXCEPT ![f] = <<v.value>>],
                       v.rest)
        Key(kEnd) ==
            IF kEnd = 0 \/ At(t, kEnd + 1) # 58 THEN Error(p, "ExpectedKey")
            ELSE Member(kEnd, FieldOfKey(SubSeq(t, p + 1, kEnd - 1)),
                        DecodeOption(t, kEnd + 2))
    IN  Key(IF At(t, p) = 34 THEN QuoteAt(t, p + 1) ELSE 0)

\* #[derive(Deserialize)] struct SoftnetStat, from a JSON object at offset p
DecodeObject(t, p) ==
    IF At(t, p) # 123 THEN Error(p, "ExpectedObject")
    ELSE DecodeMembers(t, p + 1, NoFields)

RECURSIVE DecodeElements(_, _, _)
DecodeElements(t, p, acc) ==
    LET Then(o) ==
            IF ~o.ok THEN o
            ELSE IF At(t, o.rest) = 44
                 THEN DecodeElements(t, o.rest + 1, Append(acc, o.value))
            ELSE IF At(t, o.rest) = 93 /\ o.rest = Len(t)
                 THEN Ok(o.rest + 1, Append(acc, o.value))
            ELSE Error(o.rest, "ExpectedCommaOrBracket")
    IN  Then(DecodeObject(t, p))

\* serde_json::from_str::<Vec<SoftnetStat>>(text)
from_str(t) ==
    IF At(t, 1) # 91 THEN Error(1, "ExpectedArray")
    ELSE IF At(t, 2) = 93 /\ Len(t) = 2 THEN Ok(3, <<>>)
    ELSE DecodeElements(t, 2, <<>>)

(***************************************************************************)
(* Inputs: byte buffers made of at most MaxLines lines                     *)
(***************************************************************************)
MaxLines == 3

\* the 8-digit lower-case token of a value below 16, as the kernel's %08x
Hex8(v) == <<48, 48, 48, 48, 48, 48, 48, IF v < 10 THEN 48 + v ELSE 87 + v>>

\* "6dcad223", the first token of the line of test_parse_softnet_line
TokProcessed == <<54, 100, 99, 97, 100, 50, 50, 51>>
\* "0000001F"
TokUpper == <<48, 48, 48, 48, 48, 48, 49, 70>>
\* "000000001", nine digits
TokLong == <<48, 48, 48, 48, 48, 48, 48, 48, 49>>

\* token j of the standard line: the line of test_parse_softnet_line, then
\* received_rps = f, flow_limit_count = 2, backlog_len = 3, cpu_id = 7
StdToken(j) ==
    CASE j = 1  -> TokProcessed
      [] j = 3  -> Hex8(1)
      [] j = 10 -> Hex8(15)
      [] j = 11 -> Hex8(2)
      [] j = 12 -> Hex8(3)
      [] j = 13 -> Hex8(7)
      [] OTHER  -> Hex8(0)

RECURSIVE JoinSp(_, _)
\* tokens toks[k .. ] joined by single spaces
JoinSp(toks, k) ==
    IF k > Len(toks) THEN <<>>
    ELSE (IF k > 1 THEN <<SP>> ELSE <<>>) \o toks[k] \o JoinSp(toks, k + 1)

StdTokens(k) == [j \in 1..k |-> StdToken(j)]

\* a line of k standard fields, "\n"-terminated
StdLine(k) == JoinSp(StdTokens(k), 1) \o <<LF>>
\* ten one-digit fields "0": received_rps is present with value 0
ZeroLine == JoinSp([j \in 1..10 |-> <<48>>], 1) \o <<LF>>
\* nine fields, the second with an upper-case digit
UpperLine == JoinSp([StdTokens(9) EXCEPT ![2] = TokUpper], 1) \o <<LF>>
\* nine fields, the second of nine digits
LongLine == JoinSp([StdTokens(9) EXCEPT ![2] = TokLong], 1) \o <<LF>>
\* nine fields, two spaces after the first
DoubleSpaceLine == TokProcessed \o <<SP, SP>> \o JoinSp(Tail(StdTokens(9)), 1) \o <<LF>>
\* nine fields and no line terminator
UnterminatedLine == JoinSp(StdTokens(9), 1)
\* eleven fields, "\r\n"-terminated
CrLfLine == JoinSp(StdTokens(11), 1) \o <<CR, LF>>

\* the lines the parser is exercised on
ParseLines ==
    {StdLine(8), StdLine(9), ZeroLine, CrLfLine, StdLine(12), StdLine(13), StdLine(14),
     UpperLine, LongLine, DoubleSpaceLine, UnterminatedLine}

\* the lines the whole program is run on
MainLines == {StdLine(9), ZeroLine, CrLfLine, StdLine(13), StdLine(8), UpperLine}

RECURSIVE Concat(_, _)
Concat(ls, k) == IF k > Len(ls) THEN <<>> ELSE ls[k] \o Concat(ls, k + 1)

\* every buffer of at most MaxLines lines drawn from L (the empty buffer included)
Buffers(L) ==
    {Concat(ls, 1) : ls \in UNION {[1..n -> L] : n \in 0..MaxLines}}

(***************************************************************************)
(* main                                                                    *)
(***************************************************************************)
Unset == [ok |-> FALSE, rest |-> 0, value |-> <<>>, kind |-> "Unset"]

Flags == {"-j", "-p", "-h", "-s"}

\* the command lines: any set of the four flags, or an unrecognised option
ArgSets == (SUBSET Flags) \cup {{"-x"}}

Init ==
    /\ pc = "start"
    /\ args \in ArgSets
    /\ raw = <<>>
    /\ res = Unset
    /\ lineRes = Unset
    /\ stats = <<>>
    /\ idx = 0
    /\ stdout = <<>>

\* opts.parse(&args[1..]) is Err: panic
OptionsFail ==
    /\ pc = "start"
    /\ ~(args \subseteq Flags)
    /\ pc' = "panicked"
    /\ UNCHANGED <<args, raw, res, lineRes, stats, idx, stdout>>

OptionsOk ==
    /\ pc = "start"
    /\ args \subseteq Flags
    /\ pc' = "opts"
    /\ UNCHANGED <<args, raw, res, lineRes, stats, idx, stdout>>

\* matches.opt_present("h"): print_usage and return
Help ==
    /\ pc = "opts"
    /\ "-h" \in args
    /\ stdout' = Append(stdout, UsageLine)
    /\ pc' = "exited"
    /\ UNCHANGED <<args, raw, res, lineRes, stats, idx>>

\* File::open(file).expect(...) fails
OpenFail ==
    /\ pc = "opts"
    /\ "-h" \notin args
    /\ "-s" \notin args
    /\ pc' = "panicked"
    /\ UNCHANGED <<args, raw, res, lineRes, stats, idx, stdout>>

\* read_proc_file(handle).expect(...) fails, from the file or from stdin
ReadFail ==
    /\ pc = "opts"
    /\ "-h" \notin args
    /\ pc' = "panicked"
    /\ UNCHANGED <<args, raw, res, lineRes, stats, idx, stdout>>

\* read_proc_file: the whole source is read into raw
ReadOk ==
    /\ pc = "opts"
    /\ "-h" \notin args
    /\ \E buf \in Buffers(MainLines) : raw' = buf
    /\ pc' = "read"
    /\ UNCHANGED <<args, res, lineRes, stats, idx, stdout>>

\* a mutant of the match on the parse result: an error yields no records
\* instead of a panic
MatchPanicsNever(r) == FALSE

\* the Err arms of match parse_softnet_stats(&raw)
MatchPanics(r) == ~r.ok

\* let stats = match parse_softnet_stats(&raw) { ... }
Parse ==
    /\ pc = "read"
    /\ LET Match(r) ==
               /\ res' = r
               /\ IF MatchPanics(r)
                  THEN pc' = "panicked" /\ stats' = stats
                  ELSE pc' = "parsed" /\ stats' = r.value
       IN  Match(parse_softnet_stats(raw))
    /\ UNCHANGED <<args, raw, lineRes, idx, stdout>>

\* if matches.opt_present("j") { json(&stats) }
Json ==
    /\ pc = "parsed"
    /\ "-j" \in args
    /\ stdout' = Append(stdout, JsonLine(stats))
    /\ pc' = "exited"
    /\ UNCHANGED <<args, raw, res, lineRes, stats, idx>>

\* else if matches.opt_present("p") { prometheus(&stats) }: one loop iteration
PrometheusRecord ==
    /\ pc = "parsed"
    /\ "-j" \notin args
    /\ "-p" \in args
    /\ idx < Len(stats)
    /\ stdout' = stdout \o PrometheusLines(idx, stats[idx + 1])
    /\ idx' = idx + 1
    /\ UNCHANGED <<pc, args, raw, res, lineRes, stats>>

PrometheusEnd ==
    /\ pc = "parsed"
    /\ "-j" \notin args
    /\ "-p" \in args
    /\ idx = Len(stats)
    /\ pc' = "exited"
    /\ UNCHANGED <<args, raw, res, lineRes, stats, idx, stdout>>

\* else { print(&stats, 15) }: the header
PrintHeader ==
    /\ pc = "parsed"
    /\ "-j" \notin args
    /\ "-p" \notin args
    /\ stdout' = Append(stdout, HeaderLine)
    /\ pc' = "print"
    /\ UNCHANGED <<args, raw, res, lineRes, stats, idx>>

\* print: one loop iteration
PrintRow ==
    /\ pc = "print"
    /\ idx < Len(stats)
    /\ stdout' = Append(stdout, RowLine(idx, stats[idx + 1]))
    /\ idx' = idx + 1
    /\ UNCHANGED <<pc, args, raw, res, lineRes, stats>>

PrintEnd ==
    /\ pc = "print"
    /\ idx = Len(stats)
    /\ pc' = "exited"
    /\ UNCHANGED <<args, raw, res, lineRes, stats, idx, stdout>>

Next ==
    \/ OptionsFail
    \/ OptionsOk
    \/ Help
    \/ OpenFail
    \/ ReadFail
    \/ ReadOk
    \/ Parse
    \/ Json
    \/ PrometheusRecord
    \/ PrometheusEnd
    \/ PrintHeader
    \/ PrintRow
    \/ PrintEnd

Spec == Init /\ [][Next]_vars

(***************************************************************************)
(* The parser alone, applied to every buffer of ParseLines                 *)
(***************************************************************************)
InitParse ==
    /\ pc = "input"
    /\ args = {}
    /\ raw \in Buffers(ParseLines)
    /\ res = Unset
    /\ lineRes = Unset
    /\ stats = <<>>
    /\ idx = 0
    /\ stdout = <<>>

\* parse_softnet_line(&raw[..]), as the unit tests call it
ApplyParseLine ==
    /\ pc = "input"
    /\ lineRes' = parse_softnet_line(raw, 1)
    /\ pc' = "line"
    /\ UNCHANGED <<args, raw, res, stats, idx, stdout>>

\* parse_softnet_stats(&raw)
ApplyParseStats ==
    /\ pc = "line"
    /\ res' = parse_softnet_stats(raw)
    /\ pc' = "stats"
    /\ UNCHANGED <<args, raw, lineRes, stats, idx, stdout>>

NextParse == ApplyParseLine \/ ApplyParseStats

SpecParse == InitParse /\ [][NextParse]_vars

(***************************************************************************)
(* Reference reading of a buffer, independent of the parser: the buffer is *)
(* cut at every "\n", a "\r" before it is dropped, and each line is cut at *)
(* every space.                                                            *)
(***************************************************************************)
\* the offsets of the separator bytes
SepPositions(bytes, sep) == {k \in 1..Len(bytes) : bytes[k] = sep}

\* the i-th smallest element of a set of offsets
NthPosition(S, i) == CHOOSE q \in S : Cardinality({r \in S : r < q}) = i - 1

\* the i-th piece of bytes between occurrences of sep; there is one piece
\* more than there are separators, the last being what follows the last one
RefPiece(bytes, sep, i) ==
    LET S == SepPositions(bytes, sep)
        first == IF i = 1 THEN 1 ELSE NthPosition(S, i - 1) + 1
        last == IF i = Cardinality(S) + 1 THEN Len(bytes) ELSE NthPosition(S, i) - 1
    IN  SubSeq(bytes, first, last)

\* the number of "\n"-terminated lines of buf
RefLineCount(buf) == Cardinality(SepPositions(buf, LF))

\* what follows the last "\n" of buf
RefResidue(buf) == RefPiece(buf, LF, RefLineCount(buf) + 1)

StripCR(l) == IF Len(l) > 0 /\ l[Len(l)] = CR THEN SubSeq(l, 1, Len(l) - 1) ELSE l

\* the space-separated tokens of the i-th terminated line
RefTokens(buf, i) ==
    LET l == StripCR(RefPiece(buf, LF, i))
    IN  [j \in 1..(Cardinality(SepPositions(l, SP)) + 1) |-> RefPiece(l, SP, j)]

\* the offset in buf of the first byte of the i-th line (i - 1 lines precede it)
RefLineStart(buf, i) ==
    IF i = 1 THEN 1 ELSE NthPosition(SepPositions(buf, LF), i - 1) + 1

\* a token of 1 to 8 lower-case hexadecimal digits
IsLowerHexToken(t) ==
    /\ Len(t) >= 1
    /\ Len(t) <= 8
    /\ \A k \in 1..Len(t) : IsDecDigit(t[k]) \/ IsLowerHex(t[k])

\* a token of 1 to 8 hexadecimal digits of either case
IsAnyCaseHexToken(t) ==
    /\ Len(t) >= 1
    /\ Len(t) <= 8
    /\ \A k \in 1..Len(t) : IsDecDigit(t[k]) \/ IsLowerHex(t[k]) \/ IsUpperHex(t[k])

RefDigit(b) == IF IsDecDigit(b) THEN b - 48 ELSE IF IsLowerHex(b) THEN b - 87 ELSE b - 55

RECURSIVE RefHexValue(_, _, _)
\* the number a hexadecimal token denotes, most significant digit first
RefHexValue(t, k, acc) ==
    IF k > Len(t) THEN acc ELSE RefHexValue(t, k + 1, acc * 16 + RefDigit(t[k]))

\* the i-th terminated line has between 9 and 13 lower-case hex fields
RefGoodLine(buf, i) ==
    LET toks == RefTokens(buf, i)
    IN  /\ Len(toks) >= 9
        /\ Len(toks) <= 13
        /\ \A j \in 1..Len(toks) : IsLowerHexToken(toks[j])

\* n >= 1 terminated lines, each of 9 to 13 lower-case hex fields, and nothing else
RefWellFormed(buf) ==
    /\ RefLineCount(buf) >= 1
    /\ RefResidue(buf) = <<>>
    /\ \A i \in 1..RefLineCount(buf) : RefGoodLine(buf, i)

\* optional field number j (10..13) of a line of tokens
RefOptional(toks, j) == IF Len(toks) >= j THEN <<RefHexValue(toks[j], 1, 0)>> ELSE <<>>

\* the record the data model assigns to the i-th line
RefRecord(buf, i) ==
    LET toks == RefTokens(buf, i)
    IN  [processed        |-> RefHexValue(toks[1], 1, 0),
         dropped          |-> RefHexValue(toks[2], 1, 0),
         time_squeeze     |-> RefHexValue(toks[3], 1, 0),
         cpu_collision    |-> RefHexValue(toks[9], 1, 0),
         received_rps     |-> RefOptional(toks, 10),
         flow_limit_count |-> RefOptional(toks, 11),
         backlog_len      |-> RefOptional(toks, 12),
         cpu_id           |-> RefOptional(toks, 13)]

\* which optional fields of a record are present
Shape(r) ==
    <<Len(r.received_rps) > 0, Len(r.flow_limit_count) > 0,
      Len(r.backlog_len) > 0, Len(r.cpu_id) > 0>>

\* the number of optional fields present
Present(r) ==
    Len(r.received_rps) + Len(r.flow_limit_count) + Len(r.backlog_len) + Len(r.cpu_id)

\* no later optional field is present while an earlier one is absent
PrefixShaped(r) ==
    /\ Len(r.cpu_id) > 0 => Len(r.backlog_len) > 0
    /\ Len(r.backlog_len) > 0 => Len(r.flow_limit_count) > 0
    /\ Len(r.flow_limit_count) > 0 => Len(r.received_rps) > 0

\* main went on to render: the parse was taken for a success
Rendering == pc \in {"parsed", "print", "exited"} /\ "-h" \notin args

\* some line of the rendered statistics is on standard output
StatsWritten ==
    \E k \in 1..Len(stdout) : stdout[k].kind \in {"json", "prom", "header", "row"}

(***************************************************************************)
(* Claims                                                                  *)
(***************************************************************************)

\* C1 (as stated): whenever main takes the parse for a success and goes on to
\* render, the whole buffer was consumed: no non-empty suffix is left unparsed.
C1_WholeInputConsumed ==
    Rendering => res.rest = Len(raw) + 1

\* C2 (as stated): if some terminated line of the input, first or later, has
\* fewer than 9 hex fields, parse_softnet_stats returns an error.
C2_ShortLineFails ==
    (/\ pc = "stats"
     /\ \E i \in 1..RefLineCount(raw) :
            LET toks == RefTokens(raw, i)
            IN  Len(toks) < 9 /\ \A j \in 1..Len(toks) : IsLowerHexToken(toks[j]))
    => ~res.ok

\* C3: for a well-formed input of n >= 1 terminated lines, line i of k_i fields
\* with 9 <= k_i <= 13, parse_softnet_stats returns exactly n records in file
\* order; record i takes processed, dropped, time_squeeze from fields 1-3,
\* cpu_collision from field 9, and has exactly the first k_i - 9 optional
\* fields present with the values of fields 10..k_i, never a later one
\* without an earlier one.
C3_WellFormedParse ==
    (pc = "stats" /\ RefWellFormed(raw)) =>
        /\ res.ok
        /\ Len(res.value) = RefLineCount(raw)
        /\ \A i \in 1..RefLineCount(raw) :
              /\ res.value[i] = RefRecord(raw, i)
              /\ PrefixShaped(res.value[i])
              /\ Present(res.value[i]) = Len(RefTokens(raw, i)) - 9

C3_Witness ==
    /\ pc = "stats"
    /\ RefWellFormed(raw)
    /\ res.ok
    /\ Len(res.value) = 3
    /\ Present(res.value[1]) = 0
    /\ Present(res.value[2]) = 2
    /\ res.value[3].cpu_id = <<7>>

\* C4: on the empty input both parse_softnet_line and parse_softnet_stats
\* return an error, and a successful parse_softnet_stats has at least one record.
C4_EmptyInputFails ==
    /\ (pc \in {"line", "stats"} /\ raw = <<>>) => ~lineRes.ok
    /\ (pc = "stats" /\ raw = <<>>) => ~res.ok
    /\ (pc = "stats" /\ res.ok) => Len(res.value) >= 1

C4_Witness ==
    /\ pc = "stats"
    /\ raw = <<>>
    /\ ~lineRes.ok
    /\ lineRes.kind = "Eof"
    /\ ~res.ok

\* C5 (as stated): in a successful parse every record has the same
\* optional-field shape.
C5_UniformShape ==
    (pc = "stats" /\ res.ok) =>
        \A i, j \in 1..Len(res.value) : Shape(res.value[i]) = Shape(res.value[j])

\* C5 (amended): in a successful parse the optional-field shape of a record
\* is fixed by the number k of fields of its own line (exactly the first k - 9
\* optional fields are present), so records of lines with the same number of
\* fields have the same shape.
C5_ShapeByFieldCount ==
    (pc = "stats" /\ res.ok) =>
        /\ \A i \in 1..Len(res.value) :
              /\ PrefixShaped(res.value[i])
              /\ Present(res.value[i]) = Len(RefTokens(raw, i)) - 9
        /\ \A i, j \in 1..Len(res.value) :
              Len(RefTokens(raw, i)) = Len(RefTokens(raw, j))
                  => Shape(res.value[i]) = Shape(res.value[j])

C5_Witness ==
    /\ pc = "stats"
    /\ res.ok
    /\ Len(res.value) = 3
    /\ Len(RefTokens(raw, 1)) = 10
    /\ Len(RefTokens(raw, 2)) = 12
    /\ Len(RefTokens(raw, 3)) = 10
    /\ res.value[1].received_rps = <<0>>
    /\ Shape(res.value[1]) = Shape(res.value[3])
    /\ Shape(res.value[2]) # Shape(res.value[1])

PrometheusNames ==
    {"softnet_frames_processed", "softnet_frames_dropped", "softnet_time_squeeze",
     "softnet_cpu_collisions", "softnet_received_rps", "softnet_flow_limit_count",
     "softnet_backlog_len"}

\* C7: in Prometheus rendering every metric line of the record at 0-based
\* position i carries cpu<N> with N the record's cpu_id if present and i
\* otherwise, and there is no metric line for cpu_id: seven lines per record.
C7_PrometheusLabels ==
    (Rendering /\ "-p" \in args /\ "-j" \notin args) =>
        /\ Len(stdout) = 7 * idx
        /\ pc = "exited" => idx = Len(stats)
        /\ \A k \in 1..Len(stdout) :
              LET i == (k - 1) \div 7
              IN  /\ stdout[k].kind = "prom"
                  /\ stdout[k].name \in PrometheusNames
                  /\ stdout[k].cpu = IF Len(stats[i + 1].cpu_id) > 0
                                     THEN stats[i + 1].cpu_id[1]
                                     ELSE i

C7_Witness ==
    /\ pc = "exited"
    /\ "-p" \in args
    /\ "-j" \notin args
    /\ "-h" \notin args
    /\ Len(stats) = 3
    /\ stats[1].cpu_id = <<7>>
    /\ stdout[1].cpu = 7
    /\ stats[3].cpu_id = <<>>
    /\ \A k \in 15..21 : stdout[k].cpu = 2

\* C8: decoding the JSON text written for a parsed record sequence gives back
\* the same sequence, each optional field present exactly when it was.
C8_JsonRoundTrip ==
    (pc = "exited" /\ "-j" \in args /\ "-h" \notin args) =>
        LET Same(d) ==
                /\ d.ok
                /\ Len(d.value) = Len(stats)
                /\ \A i \in 1..Len(stats) :
                      /\ Shape(d.value[i]) = Shape(stats[i])
                      /\ d.value[i] = stats[i]
        IN  Same(from_str(stdout[1].data))

C8_Witness ==
    /\ pc = "exited"
    /\ "-j" \in args
    /\ "-h" \notin args
    /\ Len(stats) = 2
    /\ stats[1].received_rps = <<0>>
    /\ stats[1].flow_limit_count = <<>>
    /\ stats[2].cpu_id = <<7>>
    /\ from_str(stdout[1].data).ok

\* the i-th terminated line has 9 to 13 fields of 1 to 8 hex digits of either case
RefAnyCaseLine(buf, i) ==
    LET toks == RefTokens(buf, i)
    IN  /\ Len(toks) >= 9
        /\ Len(toks) <= 13
        /\ \A j \in 1..Len(toks) : IsAnyCaseHexToken(toks[j])

\* C9 (as stated): a line is parsed into a record only if it has 9 to 13
\* fields of 1 to 8 lower-case hex digits separated by single spaces.
C9_AcceptsLowerCaseOnly ==
    /\ (pc \in {"line", "stats"} /\ lineRes.ok) =>
          RefLineCount(raw) >= 1 /\ RefGoodLine(raw, 1)
    /\ (pc = "stats" /\ res.ok) =>
          \A i \in 1..Len(res.value) :
              i <= RefLineCount(raw) /\ RefGoodLine(raw, i)

\* C9 (amended): a line is parsed into a record only if it has 9 to 13 fields
\* of 1 to 8 hex digits of either case separated by single spaces; a line
\* with a longer field, an empty field or more than 13 fields yields no record.
C9_AcceptsHexOnly ==
    /\ (pc \in {"line", "stats"} /\ lineRes.ok) =>
          RefLineCount(raw) >= 1 /\ RefAnyCaseLine(raw, 1)
    /\ (pc = "stats" /\ res.ok) =>
          /\ \A i \in 1..Len(res.value) :
                i <= RefLineCount(raw) /\ RefAnyCaseLine(raw, i)
          /\ \A i \in 1..RefLineCount(raw) :
                LET toks == RefTokens(raw, i)
                IN  (\/ Len(toks) > 13
                     \/ \E j \in 1..Len(toks) : Len(toks[j]) = 0 \/ Len(toks[j]) > 8)
                    => Len(res.value) < i

C9_Witness ==
    /\ pc = "stats"
    /\ lineRes.ok
    /\ res.ok
    /\ Len(res.value) = 1
    /\ RefLineCount(raw) = 3
    /\ Len(RefTokens(raw, 1)) = 9
    /\ \E j \in 1..9 : \E k \in 1..Len(RefTokens(raw, 1)[j]) :
            IsUpperHex(RefTokens(raw, 1)[j][k])
    /\ Len(RefTokens(raw, 2)) = 9
    /\ \E j \in 1..9 : Len(RefTokens(raw, 2)[j]) > 8
    /\ Len(RefTokens(raw, 3)) > 13

\* C10: if the first line parses, parse_softnet_stats returns the records of
\* the maximal run of leading lines that parse, and the remaining input starts
\* at the first byte of the first line that does not; otherwise it is an error.
C10_MaximalPrefix ==
    pc = "stats" =>
        IF lineRes.ok
        THEN /\ res.ok
             /\ Len(res.value) >= 1
             /\ Len(res.value) <= RefLineCount(raw)
             /\ \A i \in 1..Len(res.value) :
                   LET Line(r) == /\ r.ok
                                  /\ r.value = res.value[i]
                                  /\ r.rest = RefLineStart(raw, i + 1)
                   IN  Line(parse_softnet_line(raw, RefLineStart(raw, i)))
             /\ res.rest = RefLineStart(raw, Len(res.value) + 1)
             /\ ~parse_softnet_line(raw, res.rest).ok
        ELSE ~res.ok

C10_Witness ==
    /\ pc = "stats"
    /\ lineRes.ok
    /\ res.ok
    /\ Len(res.value) = 2
    /\ RefLineCount(raw) = 3
    /\ res.rest = RefLineStart(raw, 3)
    /\ res.rest <= Len(raw)
    /\ ~parse_softnet_line(raw, res.rest).ok

=============================================================================
